---- MODULE Spec2Model ----
(***************************************************************************)
(* Model of check_tikapy_bgp_peer.py: a single-shot monitoring probe that  *)
(* logs into a RouterOS API, fetches one BGP peer and prints one verdict.  *)
(*                                                                         *)
(* Python strings that are parsed (the peer identifier) are sequences of   *)
(* one-character strings; field values that are only compared are TLA+     *)
(* strings wrapped in a tagged Python value.                               *)
(***************************************************************************)
EXTENDS Integers, Sequences, FiniteSets, TLC

(***************************************************************************)
(* Bounds of the model.                                                    *)
(***************************************************************************)
\* longest identifier enumerated over Alphabet
MaxLen == 7
\* largest number of entries in a response collection
MaxEntries == 2

(***************************************************************************)
(* Python string helpers.                                                  *)
(***************************************************************************)
DecDigits == <<"0", "1", "2", "3", "4", "5", "6", "7", "8", "9">>
HexDigits == DecDigits \o <<"a", "b", "c", "d", "e", "f">>
HexUpper == <<"A", "B", "C", "D", "E", "F">>

IsDecDigit(c) == \E i \in 1..10 : DecDigits[i] = c
IsHexDigit(c) ==
    \/ \E i \in 1..16 : HexDigits[i] = c
    \/ \E i \in 1..6 : HexUpper[i] = c
HexVal(c) ==
    IF \E i \in 1..16 : HexDigits[i] = c
    THEN (CHOOSE i \in 1..16 : HexDigits[i] = c) - 1
    ELSE (CHOOSE i \in 1..6 : HexUpper[i] = c) + 9

Contains(s, c) == \E i \in 1..Len(s) : s[i] = c

\* index of the first occurrence of c in s, 0 when there is none
IndexOf(s, c) ==
    IF Contains(s, c) THEN CHOOSE i \in 1..Len(s) : s[i] = c /\ \A j \in 1..(i - 1) : s[j] # c
    ELSE 0

\* str.split(sep): always at least one part, empty parts kept
RECURSIVE Split(_, _)
Split(s, sep) ==
    LET i == IndexOf(s, sep)
    IN  IF i = 0 THEN <<s>>
        ELSE <<SubSeq(s, 1, i - 1)>> \o Split(SubSeq(s, i + 1, Len(s)), sep)

\* sep.join(parts)
RECURSIVE Join(_, _)
Join(parts, sep) ==
    IF Len(parts) = 0 THEN <<>>
    ELSE IF Len(parts) = 1 THEN parts[1]
    ELSE parts[1] \o <<sep>> \o Join(Tail(parts), sep)

\* int(s, base) of a non-empty digit string
RECURSIVE IntOf(_, _)
IntOf(s, base) ==
    IF Len(s) = 0 THEN 0
    ELSE IntOf(SubSeq(s, 1, Len(s) - 1), base) * base + HexVal(s[Len(s)])

\* '%d' % n
RECURSIVE DecStr(_)
DecStr(n) ==
    IF n < 10 THEN <<DecDigits[n + 1]>>
    ELSE DecStr(n \div 10) \o <<DecDigits[(n % 10) + 1]>>

\* '%x' % n
RECURSIVE HexStr(_)
HexStr(n) ==
    IF n < 16 THEN <<HexDigits[n + 1]>>
    ELSE HexStr(n \div 16) \o <<HexDigits[(n % 16) + 1]>>

(***************************************************************************)
(* ipaddress.ip_address on a str, as CPython 3.11 computes it.  An address *)
(* is its groups (4 octets or 8 hextets, the big-endian digits of the      *)
(* integer the library keeps) plus the IPv6 scope id.                      *)
(***************************************************************************)
ValueError == [ok |-> FALSE, version |-> 0, groups |-> <<>>, scope |-> <<>>]
Address(v, g, sc) == [ok |-> TRUE, version |-> v, groups |-> g, scope |-> sc]

\* IPv4Address._parse_octet: the octet's value, -1 for ValueError
parse_octet(o) ==
    IF Len(o) = 0 THEN -1
    ELSE IF ~(\A i \in 1..Len(o) : IsDecDigit(o[i])) THEN -1
    ELSE IF Len(o) > 3 THEN -1
    ELSE IF o # <<"0">> /\ o[1] = "0" THEN -1
    ELSE IF IntOf(o, 10) > 255 THEN -1
    ELSE IntOf(o, 10)

\* IPv4Address(str)
IPv4Address(s) ==
    IF Contains(s, "/") THEN ValueError
    ELSE IF Len(s) = 0 THEN ValueError
    ELSE LET octets == Split(s, ".")
         IN  IF Len(octets) # 4 THEN ValueError
             ELSE IF \E i \in 1..4 : parse_octet(octets[i]) = -1 THEN ValueError
             ELSE Address(4, [i \in 1..4 |-> parse_octet(octets[i])], <<>>)

\* IPv6Address._parse_hextet: the hextet's value, -1 for ValueError
parse_hextet(h) ==
    IF ~(\A i \in 1..Len(h) : IsHexDigit(h[i])) THEN -1
    ELSE IF Len(h) > 4 THEN -1
    ELSE IF Len(h) = 0 THEN -1
    ELSE IntOf(h, 16)

\* the index of the one interior empty part: 0 for none, -1 for more than one
skip_index(parts) ==
    LET empties == {i \in 2..(Len(parts) - 1) : parts[i] = <<>>}
    IN  IF empties = {} THEN 0
        ELSE IF Cardinality(empties) > 1 THEN -1
        ELSE CHOOSE i \in empties : TRUE

\* IPv6Address._ip_int_from_string after the IPv4 suffix was converted;
\* parts are indexed from 1, so the skip index is Python's plus one
hextets_from_parts(parts) ==
    LET n == Len(parts)
        sk == skip_index(parts)
        hi0 == sk - 1
        lo0 == n - sk
        hi == IF parts[1] = <<>> THEN hi0 - 1 ELSE hi0
        lo == IF parts[n] = <<>> THEN lo0 - 1 ELSE lo0
        skipped == 8 - (hi + lo)
    IN  IF n > 9 THEN <<>>
        ELSE IF sk = -1 THEN <<>>
        ELSE IF sk > 0 THEN
            IF parts[1] = <<>> /\ hi # 0 THEN <<>>
            ELSE IF parts[n] = <<>> /\ lo # 0 THEN <<>>
            ELSE IF skipped < 1 THEN <<>>
            ELSE IF \E i \in (1..hi) \cup ((n - lo + 1)..n) : parse_hextet(parts[i]) = -1
                 THEN <<>>
            ELSE [i \in 1..8 |->
                    IF i <= hi THEN parse_hextet(parts[i])
                    ELSE IF i <= hi + skipped THEN 0
                    ELSE parse_hextet(parts[n - (8 - i)])]
        ELSE IF n # 8 THEN <<>>
        ELSE IF parts[1] = <<>> \/ parts[n] = <<>> THEN <<>>
        ELSE IF \E i \in 1..8 : parse_hextet(parts[i]) = -1 THEN <<>>
        ELSE [i \in 1..8 |-> parse_hextet(parts[i])]

\* IPv6Address(str): scope id split off, then _ip_int_from_string
IPv6Address(s) ==
    LET pct == IndexOf(s, "%")
        addr == IF pct = 0 THEN s ELSE SubSeq(s, 1, pct - 1)
        scope == IF pct = 0 THEN <<>> ELSE SubSeq(s, pct + 1, Len(s))
        parts == Split(addr, ":")
        last == parts[Len(parts)]
        v4 == IPv4Address(last)
        front == SubSeq(parts, 1, Len(parts) - 1)
        conv == IF Contains(last, ".") /\ v4.ok
                THEN front \o <<HexStr(v4.groups[1] * 256 + v4.groups[2]),
                                HexStr(v4.groups[3] * 256 + v4.groups[4])>>
                ELSE parts
        hextets == hextets_from_parts(conv)
    IN  IF Contains(s, "/") THEN ValueError
        ELSE IF pct # 0 /\ (scope = <<>> \/ Contains(scope, "%")) THEN ValueError
        ELSE IF Len(addr) = 0 THEN ValueError
        ELSE IF Len(parts) < 3 THEN ValueError
        ELSE IF Contains(last, ".") /\ ~v4.ok THEN ValueError
        ELSE IF hextets = <<>> THEN ValueError
        ELSE Address(6, hextets, scope)

\* ipaddress.ip_address(str): IPv4 first, then IPv6, else ValueError
ip_address(s) ==
    IF IPv4Address(s).ok THEN IPv4Address(s)
    ELSE IF IPv6Address(s).ok THEN IPv6Address(s)
    ELSE ValueError

\* the zero runs of a hextet list, as <<start, length>> pairs
ZeroRuns(h) ==
    {<<a, l>> \in (1..Len(h)) \X (1..Len(h)) :
        /\ a + l - 1 <= Len(h)
        /\ \A i \in a..(a + l - 1) : h[i] = 0
        /\ (a = 1 \/ h[a - 1] # 0)}

\* IPv6Address._compress_hextets: the first longest run of zero hextets,
\* when longer than one, collapses to an empty part
compress_hextets(h) ==
    LET strs == [i \in 1..Len(h) |-> HexStr(h[i])]
        runs == ZeroRuns(h)
        best == IF runs = {} THEN <<0, 0>>
                ELSE CHOOSE r \in runs :
                        \A q \in runs : q[2] < r[2] \/ (q[2] = r[2] /\ q[1] >= r[1])
        start == best[1]
        end == best[1] + best[2]
    IN  IF best[2] > 1
        THEN (IF start = 1 THEN <<<<>>>> ELSE <<>>)
             \o SubSeq(strs, 1, start - 1) \o <<<<>>>> \o SubSeq(strs, end, Len(h))
             \o (IF end = Len(h) + 1 THEN <<<<>>>> ELSE <<>>)
        ELSE strs

\* str(address)
AddressStr(a) ==
    IF a.version = 4
    THEN Join([i \in 1..4 |-> DecStr(a.groups[i])], ".")
    ELSE Join(compress_hextets(a.groups), ":")
         \o (IF a.scope # <<>> THEN <<"%">> \o a.scope ELSE <<>>)


(***************************************************************************)
(* Python values of the API reply.                                         *)
(***************************************************************************)
PyStr(s) == [t |-> "str", s |-> s]
PyBool(b) == [t |-> "bool", s |-> IF b THEN "True" ELSE "False"]

\* bool(v): a str is true when non-empty
Truthy(v) == IF v.t = "bool" THEN v.s = "True" ELSE v.s # ""

Fields == {"state", "remote-address", "remote-as", "uptime", "disabled"}

FieldValues(k) ==
    CASE k = "state" -> {PyStr("established"), PyStr("connect")}
      [] k = "remote-address" -> {PyStr("10.0.0.1"), PyStr("2001:db8::1")}
      [] k = "remote-as" -> {PyStr("65001")}
      [] k = "uptime" -> {PyStr("3d")}
      [] k = "disabled" -> {PyBool(TRUE), PyBool(FALSE), PyStr("true"), PyStr("")}

AllValues == UNION {FieldValues(k) : k \in Fields}

\* every peer record: any subset of the fields, each with one of its values
Records ==
    UNION {{f \in [D -> AllValues] : \A k \in D : f[k] \in FieldValues(k)} : D \in SUBSET Fields}

\* the records placed in replies of more than one entry
SampleRecords ==
    {r \in Records :
        \/ DOMAIN r = {}
        \/ /\ DOMAIN r = Fields \ {"disabled"}
           /\ r["remote-address"] = PyStr("10.0.0.1")
        \/ /\ DOMAIN r = {"disabled", "remote-address", "remote-as"}
           /\ r["disabled"] = PyBool(TRUE)
           /\ r["remote-address"] = PyStr("10.0.0.1")}

\* peer_details before line 154 binds it
Unbound == [unbound |-> PyBool(TRUE)]

\* sequences over S of length exactly n
RECURSIVE SeqsOfLen(_, _)
SeqsOfLen(S, n) ==
    IF n = 0 THEN {<<>>}
    ELSE {Append(p, x) : p \in SeqsOfLen(S, n - 1), x \in S}

\* what talk() can hand back: a dict keyed by record id (items in insertion
\* order), or a value of another shape; n is the length of a str and the
\* value of an int
Reply(shape, items, n) == [shape |-> shape, items |-> items, n |-> n]
NoReply == Reply("unbound", <<>>, 0)
DictReplies ==
    {Reply("dict", <<>>, 0)}
    \cup {Reply("dict", <<r>>, 1) : r \in Records}
    \cup UNION {{Reply("dict", it, n) : it \in SeqsOfLen(SampleRecords, n)} : n \in 2..MaxEntries}
ListReplies ==
    UNION {{Reply("list", it, n) : it \in SeqsOfLen(SampleRecords, n)} : n \in 0..MaxEntries}
ScalarReplies ==
    {Reply("none", <<>>, 0), Reply("int", <<>>, 0), Reply("int", <<>>, 7)}
    \cup {Reply("str", <<>>, n) : n \in 0..MaxEntries}
Replies == DictReplies \cup ListReplies \cup ScalarReplies

\* bool(result)
PyTruthy(r) ==
    CASE r.shape = "dict" -> Len(r.items) > 0
      [] r.shape = "list" -> Len(r.items) > 0
      [] r.shape = "str" -> r.n > 0
      [] r.shape = "int" -> r.n # 0
      [] OTHER -> FALSE
\* len(result) raises TypeError unless the value is sized
HasLen(r) == r.shape \in {"dict", "list", "str"}
PyLen(r) == IF r.shape = "str" THEN r.n ELSE Len(r.items)
\* result.popitem raises AttributeError unless the value is a dict
HasPopitem(r) == r.shape = "dict"

(***************************************************************************)
(* Peer identifiers.                                                       *)
(***************************************************************************)
Alphabet == {"0", "1", ":", "."}

RECURSIVE StringsUpTo(_, _)
StringsUpTo(A, n) ==
    IF n = 0 THEN {<<>>}
    ELSE StringsUpTo(A, n - 1) \cup SeqsOfLen(A, n)

ExtraIdentifiers ==
    {<<"p", "e", "e", "r", "1">>, <<"1", "0", ".", "0", ".", "0", ".", "1">>, <<"1", "0", ".", "0", ".", "0", ".", "1", "/", "8">>, <<"0", "1", "0", ".", "0", ".", "0", ".", "1">>, <<"2", "0", "0", "1", ":", "0", "D", "B", "8", ":", ":", "0", "0", "0", "1">>, <<"1", ":", "0", ":", "0", ":", "2", ":", "0", ":", "0", ":", "0", ":", "3">>, <<"0", ":", "0", ":", "0", ":", "0", ":", "0", ":", "0", ":", "0", ":", "0">>, <<":", ":", "f", "f", "f", "f", ":", "1", ".", "2", ".", "3", ".", "4">>, <<"f", "e", "8", "0", ":", ":", "1", "%", "e", "t", "h", "0">>}

Identifiers == StringsUpTo(Alphabet, MaxLen) \cup ExtraIdentifiers

\* the identifiers the whole run is explored with
RunPeers ==
    {<<"1", "0", ".", "0", ".", "0", ".", "1">>,
     <<"2", "0", "0", "1", ":", "0", "D", "B", "8", ":", ":", "0", "0", "0", "1">>,
     <<"p", "e", "e", "r", "1">>}


(***************************************************************************)
(* The state of one invocation.                                            *)
(***************************************************************************)
VARIABLES
    pc,            \* the statement about to run
    args_peer,     \* args.peer, the identifier given on the command line
    peer,          \* BgpMixin.get_peer_details' peer, as '%s' renders it
    query_filter,  \* the query word '?<key>=<value>'
    response,      \* what the API sent back to talk()
    result,        \* the local result; popitem() empties it
    peer_details,  \* main's peer_details
    exc,           \* the exception raised last
    out,           \* the verdicts printed so far
    exit_code,     \* the process' exit status, -1 while it runs
    logins,        \* calls of client.login
    talks          \* calls of client.talk

vars == <<pc, args_peer, peer, query_filter, response, result, peer_details,
          exc, out, exit_code, logins, talks>>

Exception(type, what, origin) == [type |-> type, what |-> what, origin |-> origin]
NoExc == Exception("None", "", "")
KeyError(k, origin) == Exception("KeyError", k, origin)

NoFilter == [key |-> "", value |-> <<>>]

\* the exit status simple_icinga_plugin's exit_* functions end the process with
ExitCode(status) ==
    CASE status = "OK" -> 0
      [] status = "WARNING" -> 1
      [] status = "CRITICAL" -> 2
      [] status = "UNKNOWN" -> 3

Verdict(status, text, kwargs, e) ==
    [status |-> status, text |-> text, kwargs |-> kwargs, exc |-> e]

\* exit_ok / exit_warning / exit_critical / exit_unknown: print the verdict
\* and raise SystemExit, which no except clause of the program catches
Exit(status, text, kwargs, e) ==
    /\ out' = Append(out, Verdict(status, text, kwargs, e))
    /\ exit_code' = ExitCode(status)
    /\ pc' = "exited"

\* an exception leaving the current block for the except clause that takes it
Raise(e, handler) ==
    /\ exc' = e
    /\ pc' = handler
    /\ UNCHANGED <<out, exit_code>>

Init ==
    /\ pc = "parse_args"
    /\ args_peer = <<>>
    /\ peer = <<>>
    /\ query_filter = NoFilter
    /\ response = NoReply
    /\ result = NoReply
    /\ peer_details = Unbound
    /\ exc = NoExc
    /\ out = <<>>
    /\ exit_code = -1
    /\ logins = 0
    /\ talks = 0

\* lines 134-137: the arguments parse, or PluginError ends the run UNKNOWN
ParseArgs ==
    /\ pc = "parse_args"
    /\ \/ \E p \in RunPeers :
            /\ args_peer' = p
            /\ pc' = "login"
            /\ UNCHANGED <<exc, out, exit_code>>
       \/ /\ exc' = Exception("PluginError", "usage", "parse_args")
          /\ Exit("UNKNOWN", "%s", <<>>, exc')
          /\ UNCHANGED args_peer
    /\ UNCHANGED <<peer, query_filter, response, result, peer_details, logins, talks>>

\* Login with the ClientError swallowed: the run goes on to the fetch
LoginIgnoresFailure ==
    /\ pc = "login"
    /\ logins' = logins + 1
    /\ pc' = "build_filter"
    /\ \/ UNCHANGED exc
       \/ exc' = Exception("ClientError", "login failed", "login")
    /\ UNCHANGED <<args_peer, peer, query_filter, response, result, peer_details,
                   out, exit_code, talks>>

\* lines 119-126: connect and log in; the transport raises ClientError
Login ==
    /\ pc = "login"
    /\ logins' = logins + 1
    /\ \/ /\ pc' = "build_filter"
          /\ UNCHANGED <<exc, out, exit_code>>
       \/ Raise(Exception("ClientError", "login failed", "login"), "main_except")
    /\ UNCHANGED <<args_peer, peer, query_filter, response, result, peer_details, talks>>

\* lines 38-42 with the identifier formatted as given instead of the parsed address
build_filter_raw(identifier) ==
    [peer |-> identifier,
     query_filter |-> [key |-> IF ip_address(identifier).ok THEN "remote-address" ELSE "name",
                       value |-> identifier]]

\* lines 38-42: an address literal selects on remote-address, anything else
\* on name; peer is rebound to the parsed address
build_filter(identifier) ==
    LET a == ip_address(identifier)
    IN  IF a.ok
        THEN [peer |-> AddressStr(a),
              query_filter |-> [key |-> "remote-address", value |-> AddressStr(a)]]
        ELSE [peer |-> identifier,
              query_filter |-> [key |-> "name", value |-> identifier]]

\* build_filter of the run's identifiers, computed once
FilterOf == [p \in RunPeers |-> build_filter(p)]
Filter(p) == IF p \in RunPeers THEN FilterOf[p] ELSE build_filter(p)

\* lines 38-42 as a step of the run
BuildFilter ==
    /\ pc = "build_filter"
    /\ peer' = Filter(args_peer).peer
    /\ query_filter' = Filter(args_peer).query_filter
    /\ pc' = "talk"
    /\ UNCHANGED <<args_peer, response, result, peer_details, exc, out, exit_code,
                   logins, talks>>

\* lines 43-46: one request; the reply is whatever the router sends
Talk ==
    /\ pc = "talk"
    /\ talks' = talks + 1
    /\ \/ \E r \in Replies :
            /\ response' = r
            /\ result' = r
            /\ pc' = "resolve"
            /\ UNCHANGED <<exc, out, exit_code>>
       \/ /\ Raise(Exception("ClientError", "talk failed", "talk"), "main_except")
          /\ UNCHANGED <<response, result>>
    /\ UNCHANGED <<args_peer, peer, query_filter, peer_details, logins>>

NotConfigured == Exception("PluginError", "Peer '%s' not configured", "get_peer_details")
AmbiguousResult ==
    Exception("PluginError", "API returned more than one record, cannot handle this",
              "get_peer_details")
MalformedResponse ==
    Exception("PluginError", "API did not return dict, cannot handle this",
              "get_peer_details")
LenTypeError == Exception("TypeError", "object has no len()", "get_peer_details")

\* Resolve without the check of line 49: popitem takes the last of many
ResolveNoAmbiguityCheck ==
    /\ pc = "resolve"
    /\ IF ~PyTruthy(result)
       THEN Raise(NotConfigured, "main_except") /\ UNCHANGED <<result, peer_details>>
       ELSE IF ~HasPopitem(result)
       THEN Raise(MalformedResponse, "main_except") /\ UNCHANGED <<result, peer_details>>
       ELSE /\ peer_details' = result.items[Len(result.items)]
            /\ result' = Reply("dict", SubSeq(result.items, 1, Len(result.items) - 1),
                               Len(result.items) - 1)
            /\ pc' = "classify"
            /\ UNCHANGED <<exc, out, exit_code>>
    /\ UNCHANGED <<args_peer, peer, query_filter, response, logins, talks>>

\* lines 47-59: exactly one record, or an exception
Resolve ==
    /\ pc = "resolve"
    /\ IF ~PyTruthy(result)
       THEN Raise(NotConfigured, "main_except") /\ UNCHANGED <<result, peer_details>>
       ELSE IF ~HasLen(result)
       THEN Raise(LenTypeError, "main_except") /\ UNCHANGED <<result, peer_details>>
       ELSE IF PyLen(result) > 1
       THEN Raise(AmbiguousResult, "main_except") /\ UNCHANGED <<result, peer_details>>
       ELSE IF ~HasPopitem(result)
       THEN Raise(MalformedResponse, "main_except") /\ UNCHANGED <<result, peer_details>>
       ELSE /\ peer_details' = result.items[Len(result.items)]
            /\ result' = Reply("dict", SubSeq(result.items, 1, Len(result.items) - 1),
                               Len(result.items) - 1)
            /\ pc' = "classify"
            /\ UNCHANGED <<exc, out, exit_code>>
    /\ UNCHANGED <<args_peer, peer, query_filter, response, logins, talks>>

\* lines 155-158: the except clauses around get_peer_details; any other
\* exception leaves main
MainExcept ==
    /\ pc = "main_except"
    /\ IF exc.type = "ClientError"
       THEN Exit("UNKNOWN", "API error: {exc}", <<>>, exc)
       ELSE IF exc.type = "PluginError"
       THEN Exit("UNKNOWN", "{exc}", <<>>, exc)
       ELSE pc' = "top_except" /\ UNCHANGED <<out, exit_code>>
    /\ UNCHANGED <<args_peer, peer, query_filter, response, result, peer_details,
                   exc, logins, talks>>

\* peer_details.get(k, default)
Get(d, k, default) == IF k \in DOMAIN d THEN d[k] ELSE default

\* the first key of keys that d lacks, "" when it has them all
FirstMissing(d, keys) ==
    IF \A i \in 1..Len(keys) : keys[i] \in DOMAIN d THEN ""
    ELSE keys[CHOOSE i \in 1..Len(keys) :
                 /\ keys[i] \notin DOMAIN d
                 /\ \A j \in 1..(i - 1) : keys[j] \in DOMAIN d]

\* Classify with the test of line 162 inverted
ClassifyInverted ==
    /\ pc = "classify"
    /\ LET d == peer_details
           critical == FirstMissing(d, <<"remote-address", "remote-as", "state">>)
           ok == FirstMissing(d, <<"remote-address", "remote-as", "uptime">>)
       IN  IF "state" \notin DOMAIN d
           THEN Raise(KeyError("state", "classify"), "fallback")
           ELSE IF d["state"] = PyStr("established")
           THEN IF critical # ""
                THEN Raise(KeyError(critical, "classify"), "fallback")
                ELSE /\ Exit("CRITICAL", "Session to {remote} ({remoteas}) in {state} state",
                             [remote |-> d["remote-address"], remoteas |-> d["remote-as"],
                              state |-> d["state"]], NoExc)
                     /\ UNCHANGED exc
           ELSE IF ok # ""
                THEN Raise(KeyError(ok, "classify"), "fallback")
                ELSE /\ Exit("OK", "Session to {remote} ({remoteas}) established for {uptime}",
                             [remote |-> d["remote-address"], remoteas |-> d["remote-as"],
                              uptime |-> d["uptime"]], NoExc)
                     /\ UNCHANGED exc
    /\ UNCHANGED <<args_peer, peer, query_filter, response, result, peer_details,
                   logins, talks>>

\* Classify reading uptime for the CRITICAL message too
ClassifyNeedsUptime ==
    /\ pc = "classify"
    /\ LET d == peer_details
           critical == FirstMissing(d, <<"remote-address", "remote-as", "state", "uptime">>)
           ok == FirstMissing(d, <<"remote-address", "remote-as", "uptime">>)
       IN  IF "state" \notin DOMAIN d
           THEN Raise(KeyError("state", "classify"), "fallback")
           ELSE IF ~(d["state"] = PyStr("established"))
           THEN IF critical # ""
                THEN Raise(KeyError(critical, "classify"), "fallback")
                ELSE /\ Exit("CRITICAL", "Session to {remote} ({remoteas}) in {state} state",
                             [remote |-> d["remote-address"], remoteas |-> d["remote-as"],
                              state |-> d["state"]], NoExc)
                     /\ UNCHANGED exc
           ELSE IF ok # ""
                THEN Raise(KeyError(ok, "classify"), "fallback")
                ELSE /\ Exit("OK", "Session to {remote} ({remoteas}) established for {uptime}",
                             [remote |-> d["remote-address"], remoteas |-> d["remote-as"],
                              uptime |-> d["uptime"]], NoExc)
                     /\ UNCHANGED exc
    /\ UNCHANGED <<args_peer, peer, query_filter, response, result, peer_details,
                   logins, talks>>

\* Classify looking at disabled before the session fields
ClassifyDisabledFirst ==
    /\ pc = "classify"
    /\ LET d == peer_details
           critical == FirstMissing(d, <<"remote-address", "remote-as", "state">>)
           ok == FirstMissing(d, <<"remote-address", "remote-as", "uptime">>)
       IN  IF "disabled" \in DOMAIN d /\ Truthy(d["disabled"])
           THEN Raise(KeyError("state", "classify"), "fallback")
           ELSE IF "state" \notin DOMAIN d
           THEN Raise(KeyError("state", "classify"), "fallback")
           ELSE IF ~(d["state"] = PyStr("established"))
           THEN IF critical # ""
                THEN Raise(KeyError(critical, "classify"), "fallback")
                ELSE /\ Exit("CRITICAL", "Session to {remote} ({remoteas}) in {state} state",
                             [remote |-> d["remote-address"], remoteas |-> d["remote-as"],
                              state |-> d["state"]], NoExc)
                     /\ UNCHANGED exc
           ELSE IF ok # ""
                THEN Raise(KeyError(ok, "classify"), "fallback")
                ELSE /\ Exit("OK", "Session to {remote} ({remoteas}) established for {uptime}",
                             [remote |-> d["remote-address"], remoteas |-> d["remote-as"],
                              uptime |-> d["uptime"]], NoExc)
                     /\ UNCHANGED exc
    /\ UNCHANGED <<args_peer, peer, query_filter, response, result, peer_details,
                   logins, talks>>

\* Classify with an exit_critical that prints and returns: line 169 runs next
ClassifyCriticalReturns ==
    /\ pc = "classify"
    /\ LET d == peer_details
           critical == FirstMissing(d, <<"remote-address", "remote-as", "state">>)
           ok == FirstMissing(d, <<"remote-address", "remote-as", "uptime">>)
           printed == IF "state" \in DOMAIN d /\ ~(d["state"] = PyStr("established"))
                         /\ critical = ""
                      THEN Append(out, Verdict("CRITICAL",
                               "Session to {remote} ({remoteas}) in {state} state",
                               [remote |-> d["remote-address"], remoteas |-> d["remote-as"],
                                state |-> d["state"]], NoExc))
                      ELSE out
       IN  IF "state" \notin DOMAIN d
           THEN Raise(KeyError("state", "classify"), "fallback")
           ELSE IF ~(d["state"] = PyStr("established")) /\ critical # ""
           THEN Raise(KeyError(critical, "classify"), "fallback")
           ELSE IF ok # ""
           THEN /\ exc' = KeyError(ok, "classify")
                /\ pc' = "fallback"
                /\ out' = printed
                /\ UNCHANGED exit_code
           ELSE /\ out' = Append(printed, Verdict("OK",
                               "Session to {remote} ({remoteas}) established for {uptime}",
                               [remote |-> d["remote-address"], remoteas |-> d["remote-as"],
                                uptime |-> d["uptime"]], NoExc))
                /\ exit_code' = ExitCode("OK")
                /\ pc' = "exited"
                /\ UNCHANGED exc
    /\ UNCHANGED <<args_peer, peer, query_filter, response, result, peer_details,
                   logins, talks>>

\* lines 161-174: the try block; a missing key raises KeyError before the
\* exit function is called
Classify ==
    /\ pc = "classify"
    /\ LET d == peer_details
           critical == FirstMissing(d, <<"remote-address", "remote-as", "state">>)
           ok == FirstMissing(d, <<"remote-address", "remote-as", "uptime">>)
       IN  IF "state" \notin DOMAIN d
           THEN Raise(KeyError("state", "classify"), "fallback")
           ELSE IF ~(d["state"] = PyStr("established"))
           THEN IF critical # ""
                THEN Raise(KeyError(critical, "classify"), "fallback")
                ELSE /\ Exit("CRITICAL", "Session to {remote} ({remoteas}) in {state} state",
                             [remote |-> d["remote-address"], remoteas |-> d["remote-as"],
                              state |-> d["state"]], NoExc)
                     /\ UNCHANGED exc
           ELSE IF ok # ""
                THEN Raise(KeyError(ok, "classify"), "fallback")
                ELSE /\ Exit("OK", "Session to {remote} ({remoteas}) established for {uptime}",
                             [remote |-> d["remote-address"], remoteas |-> d["remote-as"],
                              uptime |-> d["uptime"]], NoExc)
                     /\ UNCHANGED exc
    /\ UNCHANGED <<args_peer, peer, query_filter, response, result, peer_details,
                   logins, talks>>

\* Fallback testing that disabled is there instead of what it holds
FallbackDisabledPresent ==
    /\ pc = "fallback"
    /\ LET d == peer_details
           warning == FirstMissing(d, <<"remote-address", "remote-as">>)
       IN  IF "disabled" \in DOMAIN d
           THEN IF warning # ""
                THEN Raise(KeyError(warning, "fallback"), "top_except")
                ELSE /\ Exit("WARNING", "Session to {remote} (AS{remoteas}) disabled",
                             [remote |-> d["remote-address"], remoteas |-> d["remote-as"]],
                             NoExc)
                     /\ UNCHANGED exc
           ELSE /\ Exit("UNKNOWN", "Could not parse peer details: {exc}", <<>>, exc)
                /\ UNCHANGED exc
    /\ UNCHANGED <<args_peer, peer, query_filter, response, result, peer_details,
                   logins, talks>>

\* Fallback reading peer_details['disabled'] with no default
FallbackIndexesDisabled ==
    /\ pc = "fallback"
    /\ LET d == peer_details
           warning == FirstMissing(d, <<"remote-address", "remote-as">>)
       IN  IF "disabled" \notin DOMAIN d
           THEN Raise(KeyError("disabled", "fallback"), "top_except")
           ELSE IF Truthy(d["disabled"])
           THEN IF warning # ""
                THEN Raise(KeyError(warning, "fallback"), "top_except")
                ELSE /\ Exit("WARNING", "Session to {remote} (AS{remoteas}) disabled",
                             [remote |-> d["remote-address"], remoteas |-> d["remote-as"]],
                             NoExc)
                     /\ UNCHANGED exc
           ELSE /\ Exit("UNKNOWN", "Could not parse peer details: {exc}", <<>>, exc)
                /\ UNCHANGED exc
    /\ UNCHANGED <<args_peer, peer, query_filter, response, result, peer_details,
                   logins, talks>>

\* lines 175-182: the KeyError handler; a KeyError raised in it leaves main
Fallback ==
    /\ pc = "fallback"
    /\ LET d == peer_details
           warning == FirstMissing(d, <<"remote-address", "remote-as">>)
       IN  IF Truthy(Get(d, "disabled", PyBool(FALSE)))
           THEN IF warning # ""
                THEN Raise(KeyError(warning, "fallback"), "top_except")
                ELSE /\ Exit("WARNING", "Session to {remote} (AS{remoteas}) disabled",
                             [remote |-> d["remote-address"], remoteas |-> d["remote-as"]],
                             NoExc)
                     /\ UNCHANGED exc
           ELSE /\ Exit("UNKNOWN", "Could not parse peer details: {exc}", <<>>, exc)
                /\ UNCHANGED exc
    /\ UNCHANGED <<args_peer, peer, query_filter, response, result, peer_details,
                   logins, talks>>

\* lines 185-189: the broad except around main
TopExcept ==
    /\ pc = "top_except"
    /\ Exit("UNKNOWN", "Unhandled error occured: %s", <<>>, exc)
    /\ UNCHANGED <<args_peer, peer, query_filter, response, result, peer_details,
                   exc, logins, talks>>

Next ==
    \/ ParseArgs
    \/ Login
    \/ BuildFilter
    \/ Talk
    \/ Resolve
    \/ MainExcept
    \/ Classify
    \/ Fallback
    \/ TopExcept

Spec == Init /\ [][Next]_vars

\* the program is sequential: a statement that can run does run
FairSpec == Spec /\ WF_vars(Next)

(***************************************************************************)
(* The query builder on its own: any identifier, after a successful login. *)
(***************************************************************************)
InitFilter ==
    /\ pc = "build_filter"
    /\ args_peer \in Identifiers
    /\ peer = <<>>
    /\ query_filter = NoFilter
    /\ response = NoReply
    /\ result = NoReply
    /\ peer_details = Unbound
    /\ exc = NoExc
    /\ out = <<>>
    /\ exit_code = -1
    /\ logins = 1
    /\ talks = 0

NextFilter == BuildFilter

SpecFilter == InitFilter /\ [][NextFilter]_vars


(***************************************************************************)
(* Properties.                                                             *)
(***************************************************************************)
Statuses == {"OK", "WARNING", "CRITICAL", "UNKNOWN"}

\* main has a record in hand and the process has ended
Classified == pc = "exited" /\ peer_details # Unbound

\* a key read by lines 162-173 is absent from d
NeedsFallback(d) ==
    \/ "state" \notin DOMAIN d
    \/ "remote-address" \notin DOMAIN d
    \/ "remote-as" \notin DOMAIN d
    \/ (d["state"] = PyStr("established") /\ "uptime" \notin DOMAIN d)

DisabledTruthy(d) == "disabled" \in DOMAIN d /\ Truthy(d["disabled"])

\* C1: a record whose state is established and that has remote-address,
\* remote-as and uptime ends the run with the single verdict OK, whose
\* message is filled with exactly those three values.
C1_EstablishedIsOK ==
    (/\ Classified
     /\ {"state", "remote-address", "remote-as", "uptime"} \subseteq DOMAIN peer_details
     /\ peer_details["state"] = PyStr("established"))
    => /\ Len(out) = 1
       /\ out[1].status = "OK"
       /\ out[1].text = "Session to {remote} ({remoteas}) established for {uptime}"
       /\ out[1].kwargs = [remote |-> peer_details["remote-address"],
                           remoteas |-> peer_details["remote-as"],
                           uptime |-> peer_details["uptime"]]

C1_Witness ==
    /\ Classified
    /\ peer_details = [state |-> PyStr("established"), uptime |-> PyStr("3d")]
                      @@ ("remote-address" :> PyStr("10.0.0.1"))
                      @@ ("remote-as" :> PyStr("65001"))
    /\ out[1].status = "OK"

\* C2: a record whose state is present and not established and that has
\* remote-address and remote-as ends the run with the single verdict
\* CRITICAL, whose message is filled with remote-address, remote-as and the
\* state as received; uptime plays no part.
C2_NotEstablishedIsCritical ==
    (/\ Classified
     /\ {"state", "remote-address", "remote-as"} \subseteq DOMAIN peer_details
     /\ peer_details["state"] # PyStr("established"))
    => /\ Len(out) = 1
       /\ out[1].status = "CRITICAL"
       /\ out[1].text = "Session to {remote} ({remoteas}) in {state} state"
       /\ out[1].kwargs = [remote |-> peer_details["remote-address"],
                           remoteas |-> peer_details["remote-as"],
                           state |-> peer_details["state"]]

C2_Witness ==
    /\ Classified
    /\ peer_details = [state |-> PyStr("connect")]
                      @@ ("remote-address" :> PyStr("10.0.0.1"))
                      @@ ("remote-as" :> PyStr("65001"))
    /\ out[1].status = "CRITICAL"

\* C3: when a key the OK/CRITICAL branch reads is absent, the verdict is
\* WARNING if disabled is present and truthy and remote-address and
\* remote-as are present, and UNKNOWN if disabled is absent or falsy.
C3_FallbackVerdict ==
    (Classified /\ NeedsFallback(peer_details))
    => /\ Len(out) = 1
       /\ (/\ DisabledTruthy(peer_details)
           /\ {"remote-address", "remote-as"} \subseteq DOMAIN peer_details)
          => /\ out[1].status = "WARNING"
             /\ out[1].kwargs = [remote |-> peer_details["remote-address"],
                                 remoteas |-> peer_details["remote-as"]]
       /\ ~DisabledTruthy(peer_details) => out[1].status = "UNKNOWN"
       /\ DOMAIN peer_details = {} => out[1].status = "UNKNOWN"

C3_Witness ==
    /\ Classified
    /\ peer_details = [disabled |-> PyBool(TRUE)]
                      @@ ("remote-address" :> PyStr("10.0.0.1"))
                      @@ ("remote-as" :> PyStr("65001"))
    /\ out[1].status = "WARNING"

\* C4 as claimed: no KeyError of the classification leaves main for the
\* handler of lines 188-189.
C4_ClassifierNeverRaises ==
    pc = "top_except" => exc.origin \notin {"classify", "fallback"}

\* C4 amended: a missing key is turned into WARNING or UNKNOWN by lines
\* 175-182 themselves, except when disabled is truthy and remote-address or
\* remote-as is absent; then, and only then, the KeyError of lines 179-180
\* leaves main and the handler of lines 188-189 reports UNKNOWN.
C4_EscapesOnlyWhenDisabledLacksAddress ==
    LET d == peer_details
        escapes == /\ NeedsFallback(d)
                   /\ DisabledTruthy(d)
                   /\ FirstMissing(d, <<"remote-address", "remote-as">>) # ""
    IN  /\ (pc = "top_except" /\ exc.type = "KeyError")
           => (d # Unbound /\ escapes /\ exc.origin = "fallback")
        /\ (Classified /\ NeedsFallback(d) /\ ~escapes)
           => /\ Len(out) = 1
              /\ out[1].status \in {"WARNING", "UNKNOWN"}
              /\ out[1].text \in {"Session to {remote} (AS{remoteas}) disabled",
                                  "Could not parse peer details: {exc}"}
        /\ (Classified /\ escapes)
           => /\ Len(out) = 1
              /\ out[1].status = "UNKNOWN"
              /\ out[1].text = "Unhandled error occured: %s"
              /\ out[1].exc = KeyError(FirstMissing(d, <<"remote-address", "remote-as">>),
                                       "fallback")

C4_Witness ==
    /\ Classified
    /\ peer_details = [disabled |-> PyBool(TRUE)]
    /\ out[1].text = "Unhandled error occured: %s"

\* the reply has gone through lines 47-59
Resolved == response # NoReply /\ pc # "resolve"

\* C5: an empty reply fails with NotConfigured, a reply of more than one
\* entry fails with AmbiguousResult whatever the entries are, a dict of
\* exactly one entry yields that entry's value, and main gets a record only
\* from a dict of exactly one entry.
C5_ResolveByCardinality ==
    /\ Resolved =>
        /\ (HasLen(response) /\ PyLen(response) = 0)
           => (exc = NotConfigured /\ peer_details = Unbound)
        /\ (HasLen(response) /\ PyLen(response) > 1)
           => (exc = AmbiguousResult /\ peer_details = Unbound)
        /\ (response.shape = "dict" /\ Len(response.items) = 1)
           => (peer_details = response.items[1] /\ result.items = <<>>)
    /\ peer_details # Unbound
       => (Resolved /\ response.shape = "dict" /\ Len(response.items) = 1)
    /\ pc \in {"classify", "fallback"} => peer_details # Unbound

C5_Witness ==
    /\ pc = "classify"
    /\ response.shape = "dict"
    /\ Len(response.items) = 1
    /\ peer_details = response.items[1]

\* C6 as claimed: every reply that is not a dict fails with
\* MalformedResponse.
C6_NonDictIsMalformed ==
    (Resolved /\ response.shape # "dict") => exc = MalformedResponse

\* the filter has been built
Built == pc # "build_filter" /\ query_filter # NoFilter

\* C7: the filter is built for every identifier and has one kind: an
\* identifier that parses as an IPv4/IPv6 literal gives a remote-address
\* filter holding the canonical text of the same address, any other
\* identifier gives a name filter holding the identifier as given.
C7_BuildFilterTotal ==
    /\ pc = "build_filter" =>
        /\ build_filter(args_peer).query_filter.key \in {"remote-address", "name"}
        /\ exc = NoExc
    /\ Built => (pc = "talk" /\ exc = NoExc)
    /\ Built =>
        /\ query_filter.key \in {"remote-address", "name"}
        /\ query_filter.key = "remote-address" <=> ip_address(args_peer).ok
        /\ query_filter.key = "name" => query_filter.value = args_peer
        /\ query_filter.key = "remote-address" =>
            LET a == ip_address(query_filter.value)
            IN  /\ a.ok
                /\ a = ip_address(args_peer)
                /\ AddressStr(a) = query_filter.value
                /\ \A i \in 1..Len(query_filter.value) :
                      \A j \in 1..6 : query_filter.value[i] # HexUpper[j]

C7_Witness ==
    /\ Built
    /\ query_filter.key = "remote-address"
    /\ query_filter.value # args_peer

\* C8: a failure of login, of the fetch or of the resolution ends the run
\* with the single verdict UNKNOWN: nothing is retried, no fetch follows a
\* failed login, and no record reaches the classifier.
C8_FailuresEndUnknown ==
    /\ logins <= 1
    /\ talks <= 1
    /\ exc.origin = "login" => talks = 0
    /\ exc.origin \in {"login", "talk", "get_peer_details"}
       => /\ pc \in {"main_except", "top_except", "exited"}
          /\ peer_details = Unbound
          /\ \A i \in 1..Len(out) : out[i].status = "UNKNOWN"
          /\ pc = "exited"
             => (Len(out) = 1 /\ out[1].exc = exc /\ exit_code = ExitCode("UNKNOWN"))

C8_Witness ==
    /\ pc = "exited"
    /\ exc.origin = "login"
    /\ out[1].status = "UNKNOWN"

\* C9: at most one verdict is ever printed, and every run ends having
\* printed exactly one verdict, one of OK, WARNING, CRITICAL, UNKNOWN.
C9_ExactlyOneVerdict ==
    /\ [](Len(out) <= 1)
    /\ <>[](/\ pc = "exited"
            /\ Len(out) = 1
            /\ out[1].status \in Statuses
            /\ exit_code = ExitCode(out[1].status))

C9_Witness ==
    /\ pc = "exited"
    /\ Len(out) = 1
    /\ out[1].status = "CRITICAL"
    /\ "uptime" \in DOMAIN peer_details

\* C10: disabled is read only in the KeyError handler: WARNING is printed
\* only for a record that lacks a key the OK/CRITICAL branch reads, and a
\* record with those keys is classified by its state even when disabled is
\* truthy.
C10_WarningOnlyAfterMissingField ==
    /\ pc = "fallback" => (exc.type = "KeyError" /\ NeedsFallback(peer_details))
    /\ \A i \in 1..Len(out) :
          out[i].status = "WARNING" => (peer_details # Unbound /\ NeedsFallback(peer_details))
    /\ (Classified /\ ~NeedsFallback(peer_details) /\ DisabledTruthy(peer_details))
       => out[1].status = IF peer_details["state"] = PyStr("established")
                          THEN "OK" ELSE "CRITICAL"

C10_Witness ==
    /\ Classified
    /\ ~NeedsFallback(peer_details)
    /\ DisabledTruthy(peer_details)
    /\ out[1].status = "OK"

====
